---- MODULE Spec2Model ----
(***************************************************************************)
(* Model of the sc16is752-async driver: the register address byte (Rab),   *)
(* the register transaction engine (RegisterWrapper), init and the         *)
(* embedded-io Write implementation, together with the part of the chip    *)
(* the driver talks to (LCR, MCR, divisor latches, TX FIFO level).         *)
(***************************************************************************)
EXTENDS Integers, Sequences, FiniteSets, TLC

VARIABLES
    channel,      \* Sc16is752.channel, fixed at construction
    chip,         \* registers of the addressed UART channel of the chip
    pc,           \* position of the running call (its next .await)
    call,         \* the call in progress or last finished, with its arguments
    loc,          \* local variables of the running call
    result,       \* what the call returned
    txns,         \* bus transactions issued by the call, in order
    accepted,     \* payload bytes the TX FIFO has taken in
    fifo_enabled, \* a FIFO Control enable write has succeeded on the bus
    caller,       \* a caller looping over write (partial-write contract)
    rab,          \* codec harness: a triple, its byte and the decoded triple
    view,         \* typed-register harness: field values, their byte, the fields read back
    calc          \* divisor harness: the inputs of the computation and its outcome

vars == <<channel, chip, pc, call, loc, result, txns, accepted, fifo_enabled,
          caller, rab, view, calc>>

driverVars == <<channel, chip, pc, call, loc, result, txns, accepted,
                fifo_enabled, caller>>

\* ------------------------------------------------------------------------
\* Bounds of the model
\* ------------------------------------------------------------------------
FifoSize == 5      \* depth of the modelled TX FIFO (64 on the chip)
MaxLen == 2        \* longest enumerated write buffer besides the fixture
MaxAccepted == 3   \* a looping caller's FIFO stops draining after this many bytes

\* ------------------------------------------------------------------------
\* Register addresses (low_level.rs)
\* ------------------------------------------------------------------------
THR == 0
IER == 1
FCR == 2
LCR == 3
MCR == 4
DLL == 0
DLH == 1
TXLVL == 8
RXLVL == 9

Channels == {"A", "B"}
Directions == {"Write", "Read"}
RegisterAddrs == 0..15

\* ------------------------------------------------------------------------
\* Byte helpers
\* ------------------------------------------------------------------------
Pow2(n) == 2^n

\* bits lo .. lo+n-1 of byte b, as a number
Bits(b, lo, n) == (b \div Pow2(lo)) % Pow2(n)

\* b left as it is
OrBit7Identity(b) == b

\* b | 0x80
OrBit7(b) == IF Bits(b, 7, 1) = 1 THEN b ELSE b + 128

Min(a, b) == IF a < b THEN a ELSE b

\* ------------------------------------------------------------------------
\* Control-byte codec: #[bitfield] struct Rab.  modular_bitfield lays the
\* fields out from the least significant bit in declaration order:
\* unused (1 bit, skipped), channel (2 bits), register (4 bits), rw (1 bit).
\* ------------------------------------------------------------------------
ChannelBits(ch) == IF ch = "A" THEN 0 ELSE 1

ReadWriteBit(rw) == IF rw = "Write" THEN 0 ELSE 1

\* other layouts of the same fields: channel above register; the fields in
\* most-significant-first order; a register field of three bits
RabSwappedFields(rw, reg, ch) ==
    ReadWriteBit(rw) * Pow2(7) + ChannelBits(ch) * Pow2(5) + reg * Pow2(1)

RabSpecLayout(rw, reg, ch) ==
    ChannelBits(ch) * Pow2(5) + reg * Pow2(1) + ReadWriteBit(rw)

RabNarrowRegister(rw, reg, ch) ==
    ReadWriteBit(rw) * Pow2(7) + (reg % 8) * Pow2(3) + ChannelBits(ch) * Pow2(1)

\* Rab::new().with_rw(rw).with_register(reg).with_channel(ch).into_bytes()[0]
RabBytes(rw, reg, ch) ==
    ReadWriteBit(rw) * Pow2(7) + reg * Pow2(3) + ChannelBits(ch) * Pow2(1)

\* the generated getters rab.rw(), rab.register(), rab.channel() of
\* Rab::from_bytes([b]); channel() has no variant for the patterns 2 and 3
RabRw(b) == IF Bits(b, 7, 1) = 0 THEN "Write" ELSE "Read"

RabRegister(b) == Bits(b, 3, 4)

RabChannel(b) ==
    CASE Bits(b, 1, 2) = 0 -> "A"
      [] Bits(b, 1, 2) = 1 -> "B"
      [] OTHER -> "Invalid"

RabDecode(b) == [rw |-> RabRw(b), reg |-> RabRegister(b), ch |-> RabChannel(b)]

Triples == [rw : Directions, reg : RegisterAddrs, ch : Channels]

NoRab == [stage |-> "off", in |-> [rw |-> "Write", reg |-> 0, ch |-> "A"],
          byte |-> 0, out |-> [rw |-> "Write", reg |-> 0, ch |-> "A"]]

NoFields == [dle |-> FALSE, brk |-> FALSE]

NoView == [stage |-> "off", kind |-> "LineControl", in |-> NoFields,
           byte |-> 0, out |-> NoFields]

NoCalc == [stage |-> "off", crystal_freq |-> 0, baud_rate |-> 0,
           prescaler |-> 1, panic |-> FALSE, quotient |-> 0, divisor |-> 0]

\* the codec applied to a triple
RabEncodeStep ==
    /\ rab.stage = "in"
    /\ rab' = [rab EXCEPT !.stage = "encoded",
                          !.byte = RabBytes(rab.in.rw, rab.in.reg, rab.in.ch)]
    /\ UNCHANGED <<driverVars, view, calc>>

\* the byte read back through the generated getters
RabDecodeStep ==
    /\ rab.stage = "encoded"
    /\ rab' = [rab EXCEPT !.stage = "decoded", !.out = RabDecode(rab.byte)]
    /\ UNCHANGED <<driverVars, view, calc>>


\* ------------------------------------------------------------------------
\* Typed register values the driver builds
\* ------------------------------------------------------------------------
Bool01(f) == IF f THEN 1 ELSE 0

\* the same fields without the reserved bit between them
FifoControlPacked(rx_trigger, tx_trigger, reset_tx, reset_rx, enable) ==
    rx_trigger + tx_trigger * Pow2(2) + Bool01(reset_tx) * Pow2(4)
      + Bool01(reset_rx) * Pow2(5) + Bool01(enable) * Pow2(6)

\* FifoControl: rx_trigger (2), tx_trigger (2), reserved (1, skipped),
\* reset_tx, reset_rx, enable, from the least significant bit
FifoControlBytes(rx_trigger, tx_trigger, reset_tx, reset_rx, enable) ==
    rx_trigger + tx_trigger * Pow2(2) + Bool01(reset_tx) * Pow2(5)
      + Bool01(reset_rx) * Pow2(6) + Bool01(enable) * Pow2(7)

\* FifoControl::new().with_reset_tx(true).with_reset_rx(true)
InitFifoControlNoEnable == FifoControlBytes(0, 0, TRUE, TRUE, FALSE)

\* FifoControl::new().with_enable(true).with_reset_tx(true).with_reset_rx(true)
InitFifoControl == FifoControlBytes(0, 0, TRUE, TRUE, TRUE)

\* lcr_val = 0x03: 8 data bits, no parity, 1 stop bit
LcrWordFormat == 3

\* ------------------------------------------------------------------------
\* Typed register views: #[bitfield(bits = 8)] structs, each field taking
\* the next bits from the least significant one, in declaration order
\* ------------------------------------------------------------------------
Bit(b, i) == Bits(b, i, 1) = 1

\* enum RxFifoTrigger { _8 = 0b00, _16 = 0b01, _56 = 0b10, _60 = 0b11 }
RxFifoTriggers == {"_8", "_16", "_56", "_60"}

RxFifoTriggerBits(v) ==
    CASE v = "_8" -> 0 [] v = "_16" -> 1 [] v = "_56" -> 2 [] v = "_60" -> 3

RxFifoTriggerOf(n) ==
    CASE n = 0 -> "_8" [] n = 1 -> "_16" [] n = 2 -> "_56" [] OTHER -> "_60"

\* enum TxFifoTrigger { _8 = 0b00, _16 = 0b01, _32 = 0b10, _56 = 0b11 }
TxFifoTriggers == {"_8", "_16", "_32", "_56"}

TxFifoTriggerBits(v) ==
    CASE v = "_8" -> 0 [] v = "_16" -> 1 [] v = "_32" -> 2 [] v = "_56" -> 3

TxFifoTriggerOf(n) ==
    CASE n = 0 -> "_8" [] n = 1 -> "_16" [] n = 2 -> "_32" [] OTHER -> "_56"

\* enum InterruptSource, five bits, five variants
InterruptSources ==
    {"ReceiveLineStatusError", "ReceiverTimeout", "RhrInterrupt",
     "ThrInterrupt", "ModemInterrupt"}

InterruptSourceBits(v) ==
    CASE v = "ReceiveLineStatusError" -> 3
      [] v = "ReceiverTimeout" -> 6
      [] v = "RhrInterrupt" -> 2
      [] v = "ThrInterrupt" -> 1
      [] v = "ModemInterrupt" -> 0

\* the getter has no variant for any other pattern
InterruptSourceOf(n) ==
    CASE n = 3 -> "ReceiveLineStatusError"
      [] n = 6 -> "ReceiverTimeout"
      [] n = 2 -> "RhrInterrupt"
      [] n = 1 -> "ThrInterrupt"
      [] n = 0 -> "ModemInterrupt"
      [] OTHER -> "Invalid"

\* enum Divisor { DivideByOne = 0, DivideByFour = 1 }
Divisors == {"DivideByOne", "DivideByFour"}

DivisorBits(v) == IF v = "DivideByOne" THEN 0 ELSE 1

DivisorOf(n) == IF n = 0 THEN "DivideByOne" ELSE "DivideByFour"

\* struct LineControl { divisor_latch_enable, break_control_bit, #[skip] unused: B6 }
LineControlFields == [dle : BOOLEAN, brk : BOOLEAN]

LineControlBytes(f) == Bool01(f.dle) + Bool01(f.brk) * Pow2(1)

LineControlOf(b) == [dle |-> Bit(b, 0), brk |-> Bit(b, 1)]

\* struct FifoControl
FifoControlFields ==
    [rx_trigger : RxFifoTriggers, tx_trigger : TxFifoTriggers,
     reset_tx : BOOLEAN, reset_rx : BOOLEAN, enable : BOOLEAN]

FifoControlOf(b) ==
    [rx_trigger |-> RxFifoTriggerOf(Bits(b, 0, 2)),
     tx_trigger |-> TxFifoTriggerOf(Bits(b, 2, 2)),
     reset_tx |-> Bit(b, 5), reset_rx |-> Bit(b, 6), enable |-> Bit(b, 7)]

\* struct Ier: eight flags
IerFields ==
    [cts : BOOLEAN, rts : BOOLEAN, x_off : BOOLEAN, sleep : BOOLEAN,
     modem_status : BOOLEAN, receive_line_status : BOOLEAN,
     transmit_holding_register : BOOLEAN, receive_holding_register : BOOLEAN]

IerBytes(f) ==
    Bool01(f.cts) + Bool01(f.rts) * Pow2(1) + Bool01(f.x_off) * Pow2(2)
      + Bool01(f.sleep) * Pow2(3) + Bool01(f.modem_status) * Pow2(4)
      + Bool01(f.receive_line_status) * Pow2(5)
      + Bool01(f.transmit_holding_register) * Pow2(6)
      + Bool01(f.receive_holding_register) * Pow2(7)

IerOf(b) ==
    [cts |-> Bit(b, 0), rts |-> Bit(b, 1), x_off |-> Bit(b, 2),
     sleep |-> Bit(b, 3), modem_status |-> Bit(b, 4),
     receive_line_status |-> Bit(b, 5),
     transmit_holding_register |-> Bit(b, 6),
     receive_holding_register |-> Bit(b, 7)]

\* struct Iir { fcr_msb: B2, source: InterruptSource, pending: bool }
IirFields == [fcr_msb : 0..3, source : InterruptSources, pending : BOOLEAN]

IirBytes(f) ==
    f.fcr_msb + InterruptSourceBits(f.source) * Pow2(2)
      + Bool01(f.pending) * Pow2(7)

IirOf(b) ==
    [fcr_msb |-> Bits(b, 0, 2), source |-> InterruptSourceOf(Bits(b, 2, 5)),
     pending |-> Bit(b, 7)]

\* struct ModemControl { divisor: Divisor, unused: B7 }
ModemControlFields == [divisor : Divisors, unused : 0..127]

ModemControlBytes(f) == DivisorBits(f.divisor) + f.unused * Pow2(1)

ModemControlOf(b) ==
    [divisor |-> DivisorOf(Bits(b, 0, 1)), unused |-> Bits(b, 1, 7)]

ViewKinds == {"LineControl", "FifoControl", "Ier", "Iir", "ModemControl"}

ViewFields(kind) ==
    CASE kind = "LineControl" -> LineControlFields
      [] kind = "FifoControl" -> FifoControlFields
      [] kind = "Ier" -> IerFields
      [] kind = "Iir" -> IirFields
      [] kind = "ModemControl" -> ModemControlFields

\* into_bytes()[0] of a view built from its fields
ViewBytes(kind, f) ==
    CASE kind = "LineControl" -> LineControlBytes(f)
      [] kind = "FifoControl" ->
           FifoControlBytes(RxFifoTriggerBits(f.rx_trigger),
                            TxFifoTriggerBits(f.tx_trigger),
                            f.reset_tx, f.reset_rx, f.enable)
      [] kind = "Ier" -> IerBytes(f)
      [] kind = "Iir" -> IirBytes(f)
      [] kind = "ModemControl" -> ModemControlBytes(f)

\* the getters of from_bytes([b])
ViewOf(kind, b) ==
    CASE kind = "LineControl" -> LineControlOf(b)
      [] kind = "FifoControl" -> FifoControlOf(b)
      [] kind = "Ier" -> IerOf(b)
      [] kind = "Iir" -> IirOf(b)
      [] kind = "ModemControl" -> ModemControlOf(b)

ViewIntoBytes ==
    /\ view.stage = "in"
    /\ view' = [view EXCEPT !.stage = "encoded",
                            !.byte = ViewBytes(view.kind, view.in)]
    /\ UNCHANGED <<driverVars, rab, calc>>

ViewFromBytes ==
    /\ view.stage = "encoded"
    /\ view' = [view EXCEPT !.stage = "decoded",
                            !.out = ViewOf(view.kind, view.byte)]
    /\ UNCHANGED <<driverVars, rab, calc>>


\* ------------------------------------------------------------------------
\* Register transaction engine (RegisterWrapper) over the SPI device
\* ------------------------------------------------------------------------
\* RegisterWrapper::write: spi.write(&[rab, value[0]])
RegisterWrite(reg, ch, value, ok) ==
    [op |-> "write", out |-> <<RabBytes("Write", reg, ch), value>>,
     in |-> <<>>, ok |-> ok]

\* RegisterWrapper::read: spi.transfer_in_place(&mut [rab, 0x00]); the
\* device answers with an echo byte and the register's value
RegisterRead(reg, ch, echo, value, ok) ==
    [op |-> "transfer", out |-> <<RabBytes("Read", reg, ch), 0>>,
     in |-> <<echo, value>>, ok |-> ok]

\* the first byte of the response
RegisterReadEcho(txn) == txn.in[1]

\* Ok([buf[1]])
RegisterReadValue(txn) == txn.in[2]

\* write_many_thr(channel, bytes): one bus write, the control byte for THR
\* followed by the data bytes
WriteManyThr(ch, bytes, ok) ==
    [op |-> "write", out |-> <<RabBytes("Write", THR, ch)>> \o bytes,
     in |-> <<>>, ok |-> ok]

\* what a transaction says, read back from its bytes
IsRegisterWrite(txn, reg, ch) ==
    /\ txn.op = "write"
    /\ Len(txn.out) = 2
    /\ txn.out[1] = RabBytes("Write", reg, ch)

IsRegisterRead(txn, reg, ch) ==
    /\ txn.op = "transfer"
    /\ Len(txn.out) = 2
    /\ txn.out[1] = RabBytes("Read", reg, ch)
    /\ txn.out[2] = 0

IsLevelRead(txn) ==
    /\ txn.op = "transfer"
    /\ RabRw(txn.out[1]) = "Read"
    /\ RabRegister(txn.out[1]) \in {TXLVL, RXLVL}

IsThrTransfer(txn) ==
    /\ txn.op = "write"
    /\ RabRw(txn.out[1]) = "Write"
    /\ RabRegister(txn.out[1]) = THR

Payload(txn) == SubSeq(txn.out, 2, Len(txn.out))

\* ------------------------------------------------------------------------
\* The chip, as far as the driver can observe and change it
\* ------------------------------------------------------------------------
LcrPowerOn == {29, 3}     \* 0x1D after reset, 0x03 once configured
McrPowerOn == {0, 128}    \* clock divisor bit clear or set
EchoBytes == {0, 255}     \* what the chip shifts out during the control byte

ChipStates ==
    [lcr : LcrPowerOn, mcr : McrPowerOn, dll : {0}, dlh : {0},
     txfree : 0..FifoSize]

LatchEnabled(c) == Bits(c.lcr, 7, 1) = 1

\* a successful single-register write
ChipWrite(c, reg, value) ==
    CASE reg = LCR -> [c EXCEPT !.lcr = value]
      [] reg = MCR -> [c EXCEPT !.mcr = value]
      [] reg = DLL /\ LatchEnabled(c) -> [c EXCEPT !.dll = value]
      [] reg = DLH /\ LatchEnabled(c) -> [c EXCEPT !.dlh = value]
      [] OTHER -> c

ChipRead(c, reg) ==
    CASE reg = LCR -> c.lcr
      [] reg = MCR -> c.mcr
      [] reg = TXLVL -> c.txfree
      [] OTHER -> 0

\* bytes of a burst to address 0x00 that the TX FIFO takes: none while the
\* divisor latch is enabled, otherwise as many as there is free space for
FifoTakes(c, bytes) ==
    IF LatchEnabled(c) THEN <<>>
    ELSE SubSeq(bytes, 1, Min(Len(bytes), c.txfree))

ChipBurst(c, bytes) ==
    IF bytes = <<>> THEN c
    ELSE IF LatchEnabled(c) THEN [c EXCEPT !.dll = bytes[Len(bytes)]]
    ELSE [c EXCEPT !.txfree = c.txfree - Len(FifoTakes(c, bytes))]


\* ------------------------------------------------------------------------
\* Inputs of the calls
\* ------------------------------------------------------------------------
PayloadBytes == {65, 66}

\* the ten-byte request of the partial-write example
TenBytes == [i \in 1..10 |-> 47 + i]

SeqsUpTo(S, n) == UNION {[1..k -> S] : k \in 0..n}

\* buf of Write::write
Buffers == SeqsUpTo(PayloadBytes, MaxLen) \cup {TenBytes}

\* (baud_rate, crystal_freq) of init: the 9600 baud example, a baud rate
\* whose quotient needs more than 16 bits, a zero baud rate, and a baud rate
\* for which 16 * baud_rate exceeds 32 bits
InitArgs ==
    { [baud_rate |-> 9600, crystal_freq |-> 1843200],
      [baud_rate |-> 1, crystal_freq |-> 1843200],
      [baud_rate |-> 0, crystal_freq |-> 1843200],
      [baud_rate |-> 268435457, crystal_freq |-> 1843200] }

\* 2^32 / 16: 16 * baud_rate needs more than 32 bits from here on
OverflowBaud == 268435456
U16 == 65536

\* ------------------------------------------------------------------------
\* Call bookkeeping
\* ------------------------------------------------------------------------
NoCall == [op |-> "none", buf |-> <<>>, baud_rate |-> 0, crystal_freq |-> 0]

InitCall(a) ==
    [op |-> "init", buf |-> <<>>, baud_rate |-> a.baud_rate,
     crystal_freq |-> a.crystal_freq]

WriteCall(buf) ==
    [op |-> "write", buf |-> buf, baud_rate |-> 0, crystal_freq |-> 0]

FlushCall == [op |-> "flush", buf |-> <<>>, baud_rate |-> 0, crystal_freq |-> 0]

\* read(buf: &mut [u8]) with a buffer of n bytes
ReadCall(n) ==
    [op |-> "read", buf |-> [i \in 1..n |-> 0], baud_rate |-> 0,
     crystal_freq |-> 0]

NoLocals == [lcr_val |-> 0, mcr |-> 0, prescaler |-> 0, divisor |-> 0,
             space_left |-> 0, len |-> 0]

NoResult == [kind |-> "none", val |-> 0]
Pending == [kind |-> "pending", val |-> 0]
Ok(v) == [kind |-> "ok", val |-> v]
ErrAsZeroCount == [kind |-> "ok", val |-> 0]   \* a failure told as Ok(0)
Err == [kind |-> "err", val |-> 0]       \* Err(Error::Spi(e))
Panicked == [kind |-> "panic", val |-> 0]

NoCaller == [state |-> "off", data |-> <<>>, rest |-> <<>>]

\* a failed transaction taken for a success
AbortReportsOk ==
    /\ result' = [kind |-> "ok", val |-> 0]
    /\ pc' = "idle"

\* the `?` after a failed transaction: the call returns the wrapped error
Abort ==
    /\ result' = Err
    /\ pc' = "idle"

\* ------------------------------------------------------------------------
\* Sc16is752::init
\* ------------------------------------------------------------------------
CallInit ==
    /\ pc = "idle"
    /\ caller.state = "off"
    /\ \E a \in InitArgs : call' = InitCall(a)
    /\ loc' = NoLocals
    /\ result' = Pending
    /\ txns' = <<>>
    /\ accepted' = <<>>
    /\ pc' = "init_write_fcr"
    /\ UNCHANGED <<channel, chip, fifo_enabled, caller, rab, view, calc>>

\* regs.write_fcr(channel, FifoControl ...).await?
InitWriteFcr ==
    /\ pc = "init_write_fcr"
    /\ \E ok \in BOOLEAN :
         /\ txns' = Append(txns, RegisterWrite(FCR, channel, InitFifoControl, ok))
         /\ IF ok
            THEN /\ chip' = ChipWrite(chip, FCR, InitFifoControl)
                 /\ fifo_enabled' = TRUE
                 /\ pc' = "init_read_lcr"
                 /\ UNCHANGED result
            ELSE /\ Abort
                 /\ UNCHANGED <<chip, fifo_enabled>>
    /\ UNCHANGED <<channel, call, loc, accepted, caller, rab, view, calc>>

\* let mut lcr_val = regs.read(LCR, channel).await?[0]
InitReadLcr ==
    /\ pc = "init_read_lcr"
    /\ \E ok \in BOOLEAN, echo \in EchoBytes :
         LET txn == RegisterRead(LCR, channel, echo, ChipRead(chip, LCR), ok) IN
         /\ txns' = Append(txns, txn)
         /\ IF ok
            THEN /\ loc' = [loc EXCEPT !.lcr_val = RegisterReadValue(txn)]
                 /\ pc' = "init_write_latch"
                 /\ UNCHANGED result
            ELSE /\ Abort
                 /\ UNCHANGED loc
    /\ UNCHANGED <<channel, chip, call, accepted, fifo_enabled, caller, rab, view, calc>>

\* lcr_val |= 0x80; regs.write(LCR, channel, [lcr_val]).await?
InitWriteLatch ==
    /\ pc = "init_write_latch"
    /\ \E ok \in BOOLEAN :
         LET v == OrBit7(loc.lcr_val) IN
         /\ loc' = [loc EXCEPT !.lcr_val = v]
         /\ txns' = Append(txns, RegisterWrite(LCR, channel, v, ok))
         /\ IF ok
            THEN /\ chip' = ChipWrite(chip, LCR, v)
                 /\ pc' = "init_read_mcr"
                 /\ UNCHANGED result
            ELSE /\ Abort
                 /\ UNCHANGED chip
    /\ UNCHANGED <<channel, call, accepted, fifo_enabled, caller, rab, view, calc>>

\* the two prescalers the other way round
PrescalerSwapped(mcr) == IF mcr = 0 THEN 4 ELSE 1

\* let prescaler = if mcr == 0 { 1 } else { 4 }
Prescaler(mcr) == IF mcr = 0 THEN 1 ELSE 4

\* the same division rounded to the nearest integer
DivisorRounded(crystal_freq, baud_rate, prescaler, overflow_checks) ==
    LET overflows == baud_rate >= OverflowBaud
        wrapped == 16 * (baud_rate % OverflowBaud)
        quotient ==
          ((crystal_freq \div prescaler) + (wrapped \div 2)) \div wrapped
    IN IF (overflows /\ overflow_checks) \/ wrapped = 0
       THEN [panic |-> TRUE, quotient |-> 0, divisor |-> 0]
       ELSE [panic |-> FALSE, quotient |-> quotient,
             divisor |-> quotient % U16]

\* ((crystal_freq / prescaler) / (16 * baud_rate)) as u16, in u32 arithmetic.
\* 16 * baud_rate beyond 32 bits panics when the build checks overflow and
\* wraps when it does not; a zero divisor panics.  The wrapped product
\* (16 * baud_rate) mod 2^32 is written 16 * (baud_rate mod 2^28), the same
\* number, to stay inside the model checker's integers.
DivisorOutcome(crystal_freq, baud_rate, prescaler, overflow_checks) ==
    LET overflows == baud_rate >= OverflowBaud
        wrapped == 16 * (baud_rate % OverflowBaud)
        quotient == (crystal_freq \div prescaler) \div wrapped
    IN IF (overflows /\ overflow_checks) \/ wrapped = 0
       THEN [panic |-> TRUE, quotient |-> 0, divisor |-> 0]
       ELSE [panic |-> FALSE, quotient |-> quotient,
             divisor |-> quotient % U16]

\* the builds: only a product that overflows tells them apart
OverflowChecks(baud_rate) ==
    IF baud_rate >= OverflowBaud THEN BOOLEAN ELSE {FALSE}

\* the divisor computation applied to the harness inputs
CalcDivisor ==
    /\ calc.stage = "in"
    /\ \E checks \in OverflowChecks(calc.baud_rate) :
         LET d == DivisorOutcome(calc.crystal_freq, calc.baud_rate,
                                 calc.prescaler, checks)
         IN calc' = [calc EXCEPT !.stage = "done", !.panic = d.panic,
                                 !.quotient = d.quotient,
                                 !.divisor = d.divisor]
    /\ UNCHANGED <<driverVars, rab, view>>

\* let mcr = regs.read(MCR, channel).await?[0]; then the divisor is computed
InitReadMcr ==
    /\ pc = "init_read_mcr"
    /\ \E ok \in BOOLEAN, echo \in EchoBytes,
          checks \in OverflowChecks(call.baud_rate) :
         LET txn == RegisterRead(MCR, channel, echo, ChipRead(chip, MCR), ok)
             mcr == RegisterReadValue(txn)
             d == DivisorOutcome(call.crystal_freq, call.baud_rate,
                                 Prescaler(mcr), checks)
         IN
         /\ txns' = Append(txns, txn)
         /\ IF ~ok
            THEN /\ Abort
                 /\ UNCHANGED loc
            ELSE IF d.panic
            THEN /\ loc' = [loc EXCEPT !.mcr = mcr, !.prescaler = Prescaler(mcr)]
                 /\ result' = Panicked
                 /\ pc' = "panicked"
            ELSE /\ loc' = [loc EXCEPT !.mcr = mcr, !.prescaler = Prescaler(mcr),
                                       !.divisor = d.divisor]
                 /\ pc' = "init_write_dll"
                 /\ UNCHANGED result
    /\ UNCHANGED <<channel, chip, call, accepted, fifo_enabled, caller, rab, view, calc>>

\* let [msb, lsb] = divisor.to_be_bytes()
Lsb(divisor) == divisor % 256
Msb(divisor) == divisor \div 256

\* regs.write(DLL, channel, [lsb]).await?
InitWriteDll ==
    /\ pc = "init_write_dll"
    /\ \E ok \in BOOLEAN :
         /\ txns' = Append(txns, RegisterWrite(DLL, channel, Lsb(loc.divisor), ok))
         /\ IF ok
            THEN /\ chip' = ChipWrite(chip, DLL, Lsb(loc.divisor))
                 /\ pc' = "init_write_dlh"
                 /\ UNCHANGED result
            ELSE /\ Abort
                 /\ UNCHANGED chip
    /\ UNCHANGED <<channel, call, loc, accepted, fifo_enabled, caller, rab, view, calc>>

\* regs.write(DLH, channel, [msb]).await?
InitWriteDlh ==
    /\ pc = "init_write_dlh"
    /\ \E ok \in BOOLEAN :
         /\ txns' = Append(txns, RegisterWrite(DLH, channel, Msb(loc.divisor), ok))
         /\ IF ok
            THEN /\ chip' = ChipWrite(chip, DLH, Msb(loc.divisor))
                 /\ pc' = "init_write_lcr"
                 /\ UNCHANGED result
            ELSE /\ Abort
                 /\ UNCHANGED chip
    /\ UNCHANGED <<channel, call, loc, accepted, fifo_enabled, caller, rab, view, calc>>

\* lcr_val = 0x03; regs.write(LCR, channel, [lcr_val]).await?; Ok(())
InitWriteLcr ==
    /\ pc = "init_write_lcr"
    /\ \E ok \in BOOLEAN :
         /\ loc' = [loc EXCEPT !.lcr_val = LcrWordFormat]
         /\ txns' = Append(txns, RegisterWrite(LCR, channel, LcrWordFormat, ok))
         /\ IF ok
            THEN /\ chip' = ChipWrite(chip, LCR, LcrWordFormat)
                 /\ result' = Ok(0)
                 /\ pc' = "idle"
            ELSE /\ Abort
                 /\ UNCHANGED chip
    /\ UNCHANGED <<channel, call, accepted, fifo_enabled, caller, rab, view, calc>>


\* ------------------------------------------------------------------------
\* Write::write and Write::flush
\* ------------------------------------------------------------------------
\* a test that no buffer passes
IsEmptyNever(buf) == FALSE

\* buf.is_empty()
IsEmpty(buf) == Len(buf) = 0

\* buf.len() alone
WriteLenWholeBuffer(buf, space_left) == Len(buf)

\* let len = buf.len().min(space_left)
WriteLen(buf, space_left) == Min(Len(buf), space_left)

\* buf without its last byte
ThrSliceDropLast(buf, len) == SubSeq(buf, 1, Len(buf) - 1)

\* the slice handed to write_many_thr: buf, all of it
ThrSlice(buf, len) == buf

\* entry of write: Ok(0) at once for an empty buffer
EnterWrite(buf) ==
    /\ pc = "idle"
    /\ call' = WriteCall(buf)
    /\ loc' = NoLocals
    /\ txns' = <<>>
    /\ IF IsEmpty(buf)
       THEN /\ result' = Ok(0)
            /\ pc' = "idle"
       ELSE /\ result' = Pending
            /\ pc' = "write_read_txlvl"
    /\ UNCHANGED <<channel, chip, fifo_enabled, rab, view, calc>>

\* a caller invokes write with some buffer
CallWrite ==
    /\ caller.state = "off"
    /\ \E buf \in Buffers : EnterWrite(buf)
    /\ accepted' = <<>>
    /\ UNCHANGED caller

\* let space_left = regs.read_txlvl(channel).await? as usize
WriteReadTxlvl ==
    /\ pc = "write_read_txlvl"
    /\ \E ok \in BOOLEAN, echo \in EchoBytes :
         LET txn == RegisterRead(TXLVL, channel, echo, ChipRead(chip, TXLVL), ok)
             space_left == RegisterReadValue(txn)
         IN
         /\ txns' = Append(txns, txn)
         /\ IF ok
            THEN /\ loc' = [loc EXCEPT !.space_left = space_left,
                                       !.len = WriteLen(call.buf, space_left)]
                 /\ pc' = "write_many_thr"
                 /\ UNCHANGED result
            ELSE /\ Abort
                 /\ UNCHANGED loc
    /\ UNCHANGED <<channel, chip, call, accepted, fifo_enabled, caller, rab, view, calc>>

\* regs.write_many_thr(channel, buf).await?; Ok(len)
WriteThr ==
    /\ pc = "write_many_thr"
    /\ \E ok \in BOOLEAN :
         LET bytes == ThrSlice(call.buf, loc.len) IN
         /\ txns' = Append(txns, WriteManyThr(channel, bytes, ok))
         /\ IF ok
            THEN /\ chip' = ChipBurst(chip, bytes)
                 /\ accepted' = accepted \o FifoTakes(chip, bytes)
                 /\ result' = Ok(loc.len)
                 /\ pc' = "idle"
            ELSE /\ Abort
                 /\ UNCHANGED <<chip, accepted>>
    /\ UNCHANGED <<channel, call, loc, fifo_enabled, caller, rab, view, calc>>

\* a flush that asks the chip for its TX FIFO level
CallFlushPolls ==
    /\ pc = "idle"
    /\ caller.state = "off"
    /\ call' = FlushCall
    /\ loc' = NoLocals
    /\ txns' = <<RegisterRead(TXLVL, channel, 0, ChipRead(chip, TXLVL), TRUE)>>
    /\ result' = Ok(0)
    /\ UNCHANGED <<channel, chip, pc, accepted, fifo_enabled, caller, rab,
                   view, calc>>

\* flush: Ok(())
CallFlush ==
    /\ pc = "idle"
    /\ caller.state = "off"
    /\ call' = FlushCall
    /\ loc' = NoLocals
    /\ txns' = <<>>
    /\ result' = Ok(0)
    /\ UNCHANGED <<channel, chip, pc, accepted, fifo_enabled, caller, rab, view, calc>>

\* ------------------------------------------------------------------------
\* Read::read: todo!()
\* ------------------------------------------------------------------------
CallRead ==
    /\ pc = "idle"
    /\ caller.state = "off"
    /\ \E n \in 0..MaxLen : call' = ReadCall(n)
    /\ loc' = NoLocals
    /\ txns' = <<>>
    /\ result' = Panicked
    /\ pc' = "panicked"
    /\ UNCHANGED <<channel, chip, accepted, fifo_enabled, caller, rab, view,
                   calc>>

\* ------------------------------------------------------------------------
\* The chip's transmitter takes a byte out of the TX FIFO
\* ------------------------------------------------------------------------
Drain ==
    /\ chip.txfree < FifoSize
    /\ caller.state = "off" \/ Len(accepted) < MaxAccepted
    /\ chip' = [chip EXCEPT !.txfree = chip.txfree + 1]
    /\ UNCHANGED <<channel, pc, call, loc, result, txns, accepted,
                   fifo_enabled, caller, rab, view, calc>>

\* ------------------------------------------------------------------------
\* A caller following the partial-write contract: it calls write with what
\* remains of its data and drops the returned count from the front
\* ------------------------------------------------------------------------
LoopData == SeqsUpTo(PayloadBytes, MaxLen) \ {<<>>}

LoopCallWrite ==
    /\ caller.state = "ready"
    /\ EnterWrite(caller.rest)
    /\ caller' = [caller EXCEPT !.state = "waiting"]
    /\ UNCHANGED accepted

LoopReturn ==
    /\ caller.state = "waiting"
    /\ pc = "idle"
    /\ IF result.kind = "ok"
       THEN LET rest == SubSeq(caller.rest, result.val + 1, Len(caller.rest)) IN
            caller' = [caller EXCEPT
                         !.rest = rest,
                         !.state = IF rest = <<>> THEN "done" ELSE "ready"]
       ELSE caller' = [caller EXCEPT !.state = "failed"]
    /\ UNCHANGED <<channel, chip, pc, call, loc, result, txns, accepted,
                   fifo_enabled, rab, view, calc>>

\* ------------------------------------------------------------------------
\* Specifications
\* ------------------------------------------------------------------------
DriverInit ==
    /\ channel \in Channels
    /\ chip \in ChipStates
    /\ pc = "idle"
    /\ call = NoCall
    /\ loc = NoLocals
    /\ result = NoResult
    /\ txns = <<>>
    /\ accepted = <<>>
    /\ fifo_enabled = FALSE

\* a driver instance after new(), used through init, write and flush
Init ==
    /\ DriverInit
    /\ caller = NoCaller
    /\ rab = NoRab
    /\ view = NoView
    /\ calc = NoCalc

Next ==
    \/ CallInit
    \/ InitWriteFcr
    \/ InitReadLcr
    \/ InitWriteLatch
    \/ InitReadMcr
    \/ InitWriteDll
    \/ InitWriteDlh
    \/ InitWriteLcr
    \/ CallWrite
    \/ WriteReadTxlvl
    \/ WriteThr
    \/ CallFlush
    \/ CallRead
    \/ Drain

Spec == Init /\ [][Next]_vars

\* the same instance driven by a caller that loops over write
LoopInit ==
    /\ DriverInit
    /\ \E data \in LoopData :
         caller = [state |-> "ready", data |-> data, rest |-> data]
    /\ rab = NoRab
    /\ view = NoView
    /\ calc = NoCalc

LoopNext ==
    \/ LoopCallWrite
    \/ WriteReadTxlvl
    \/ WriteThr
    \/ LoopReturn
    \/ Drain

LoopSpec == LoopInit /\ [][LoopNext]_vars

\* the codec on its own, over every triple
CodecInit ==
    /\ channel = "A"
    /\ chip = [lcr |-> 29, mcr |-> 0, dll |-> 0, dlh |-> 0, txfree |-> FifoSize]
    /\ pc = "idle"
    /\ call = NoCall
    /\ loc = NoLocals
    /\ result = NoResult
    /\ txns = <<>>
    /\ accepted = <<>>
    /\ fifo_enabled = FALSE
    /\ caller = NoCaller
    /\ \E t \in Triples : rab = [NoRab EXCEPT !.stage = "in", !.in = t]
    /\ view = NoView
    /\ calc = NoCalc

CodecNext ==
    \/ RabEncodeStep
    \/ RabDecodeStep

CodecSpec == CodecInit /\ [][CodecNext]_vars


\* a driver that is not called, for the specifications of the pure parts
DriverUnused ==
    /\ channel = "A"
    /\ chip = [lcr |-> 29, mcr |-> 0, dll |-> 0, dlh |-> 0, txfree |-> FifoSize]
    /\ pc = "idle"
    /\ call = NoCall
    /\ loc = NoLocals
    /\ result = NoResult
    /\ txns = <<>>
    /\ accepted = <<>>
    /\ fifo_enabled = FALSE
    /\ caller = NoCaller

\* the typed register views on their own, over every combination of fields
ViewInit ==
    /\ DriverUnused
    /\ rab = NoRab
    /\ calc = NoCalc
    /\ \E kind \in ViewKinds :
         \E f \in ViewFields(kind) :
           view = [stage |-> "in", kind |-> kind, in |-> f, byte |-> 0,
                   out |-> NoFields]

ViewNext ==
    \/ ViewIntoBytes
    \/ ViewFromBytes

ViewSpec == ViewInit /\ [][ViewNext]_vars

\* the divisor computation on its own; the values stay below 2^31, the
\* range of the model checker's integers
CalcCrystals ==
    {0, 1, 15, 16, 63, 64, 1843200, 3686400, 14745600, 2147483647}

CalcBauds == {0, 1, 2, 3, 300, 9600, 115200, 33554431, 268435457}

CalcPrescalers == {1, 4}

CalcInit ==
    /\ DriverUnused
    /\ rab = NoRab
    /\ view = NoView
    /\ \E c \in CalcCrystals, b \in CalcBauds, p \in CalcPrescalers :
         calc = [NoCalc EXCEPT !.stage = "in", !.crystal_freq = c,
                               !.baud_rate = b, !.prescaler = p]

CalcNext == CalcDivisor

CalcSpec == CalcInit /\ [][CalcNext]_vars

\* ------------------------------------------------------------------------
\* Properties
\* ------------------------------------------------------------------------
Encoded == rab.stage \in {"encoded", "decoded"}

\* C1: the codec gives 0xC0 for (read, TXLVL, A), 0x08 for (write, IER, A)
\* and 0xC2 for (read, TXLVL, B).
C1_Fixtures ==
    Encoded =>
      /\ rab.in = [rw |-> "Read", reg |-> 8, ch |-> "A"] => rab.byte = 192
      /\ rab.in = [rw |-> "Write", reg |-> 1, ch |-> "A"] => rab.byte = 8
      /\ rab.in = [rw |-> "Read", reg |-> 8, ch |-> "B"] => rab.byte = 194

C1_Witness ==
    /\ rab.stage = "encoded"
    /\ rab.in = [rw |-> "Read", reg |-> TXLVL, ch |-> "B"]
    /\ rab.byte = 194

\* C2 as stated: bit7 = 0, bits6:5 = channel, bits4:1 = register address,
\* bit0 = direction (0 = write, 1 = read).
C2_StatedLayout ==
    Encoded =>
      /\ Bits(rab.byte, 7, 1) = 0
      /\ Bits(rab.byte, 5, 2) = (IF rab.in.ch = "A" THEN 0 ELSE 1)
      /\ Bits(rab.byte, 1, 4) = rab.in.reg
      /\ Bits(rab.byte, 0, 1) = (IF rab.in.rw = "Read" THEN 1 ELSE 0)

\* C2 amended: for every channel, register address 0..15 and direction the
\* control byte has bit7 = direction (0 = write, 1 = read), bits6:3 =
\* register address, bits2:1 = channel and bit0 = 0.
C2_CodeLayout ==
    Encoded =>
      /\ Bits(rab.byte, 7, 1) = (IF rab.in.rw = "Read" THEN 1 ELSE 0)
      /\ Bits(rab.byte, 3, 4) = rab.in.reg
      /\ Bits(rab.byte, 1, 2) = (IF rab.in.ch = "A" THEN 0 ELSE 1)
      /\ Bits(rab.byte, 0, 1) = 0
      /\ rab.byte \in 0..255

C2_Witness ==
    /\ rab.stage = "encoded"
    /\ rab.in = [rw |-> "Read", reg |-> 15, ch |-> "B"]
    /\ rab.byte = 250

\* C3: decoding the control byte of a triple gives the triple back, and no
\* other triple has the same control byte.
C3_RoundTrip ==
    /\ rab.stage = "decoded" => rab.out = rab.in
    /\ Encoded =>
         \A t \in Triples : RabBytes(t.rw, t.reg, t.ch) = rab.byte => t = rab.in

C3_Witness ==
    /\ rab.stage = "decoded"
    /\ rab.in = [rw |-> "Write", reg |-> 15, ch |-> "B"]
    /\ rab.out = rab.in

\* positions of the transactions of a kind in the call's trace
TxlvlReads == {i \in DOMAIN txns : IsRegisterRead(txns[i], TXLVL, channel)}

ThrTransfers == {i \in DOMAIN txns : IsThrTransfer(txns[i])}

WriteOfData == call.op = "write" /\ call.buf # <<>>

\* the free space the call read from TXLVL
SpaceRead == txns[1].in[2]

\* C4: a write with non-empty input reads TXLVL once, before any payload
\* transfer, never waits on the interrupt line, and when no transaction
\* fails returns min(len(input), free space read), whatever came before.
C4_WriteReadsLevelOnce ==
    WriteOfData =>
      /\ Cardinality(TxlvlReads) <= 1
      /\ txns # <<>> => TxlvlReads = {1}
      /\ \A i \in ThrTransfers : i > 1
      /\ \A i \in DOMAIN txns : txns[i].op \in {"write", "transfer"}
      /\ pc = "write_many_thr" => TxlvlReads = {1} /\ txns[1].ok
      /\ result.kind = "ok" =>
           /\ TxlvlReads = {1}
           /\ result.val = (IF Len(call.buf) < SpaceRead
                            THEN Len(call.buf) ELSE SpaceRead)

C4_Witness ==
    /\ WriteOfData
    /\ result.kind = "ok"
    /\ Len(call.buf) = 2
    /\ SpaceRead = 1
    /\ result.val = 1
    /\ fifo_enabled

\* C5: when write is given more bytes than the free space read from TXLVL,
\* the payload sent to THR is exactly the first `space` bytes of the input,
\* and never more bytes than that free space.
C5_OnlyFirstSpaceBytes ==
    WriteOfData /\ txns # <<>> /\ txns[1].ok =>
      \A i \in ThrTransfers :
        /\ Len(Payload(txns[i])) <= SpaceRead
        /\ Len(call.buf) > SpaceRead =>
             Payload(txns[i]) = SubSeq(call.buf, 1, SpaceRead)

\* C6: a non-empty input no longer than the free space read is transmitted
\* whole, once and in order, and write returns the input length.
C6_FitsThenAllSent ==
    WriteOfData /\ result.kind = "ok" /\ Len(call.buf) <= SpaceRead =>
      /\ Cardinality(ThrTransfers) = 1
      /\ \A i \in ThrTransfers : Payload(txns[i]) = call.buf /\ txns[i].ok
      /\ result.val = Len(call.buf)

C6_Witness ==
    /\ WriteOfData
    /\ result.kind = "ok"
    /\ Len(call.buf) = 2
    /\ SpaceRead = 3
    /\ Payload(txns[2]) = call.buf
    /\ result.val = 2

\* C7: write with empty input returns 0 and issues no bus transaction,
\* whatever the state of the driver and the chip.
C7_EmptyWrite ==
    call.op = "write" /\ call.buf = <<>> =>
      /\ result = Ok(0)
      /\ txns = <<>>
      /\ pc = "idle"

C7_Witness ==
    /\ call.op = "write"
    /\ call.buf = <<>>
    /\ result = Ok(0)
    /\ txns = <<>>
    /\ chip.txfree = 0
    /\ LatchEnabled(chip)

IsPrefix(s, t) == Len(s) <= Len(t) /\ s = SubSeq(t, 1, Len(s))

\* C8: a caller looping over write with the remaining slice makes every
\* byte of its data enter the TX FIFO exactly once and in order.
C8_LoopExactlyOnce ==
    caller.state # "off" =>
      /\ IsPrefix(accepted, caller.data)
      /\ caller.state = "done" => accepted = caller.data

\* C9 as stated: in every trace of init, write and flush calls no level
\* register is read before the FIFO Control enable write.
C9_LevelReadAfterEnable ==
    (\E i \in DOMAIN txns : IsLevelRead(txns[i])) => fifo_enabled

\* C9 amended: within init the FIFO Control write with reset-tx, reset-rx
\* and enable set is the first transaction, and init reads no level
\* register; once that write has succeeded the FIFO counts as enabled.
C9_EnableFirstInInit ==
    call.op = "init" /\ txns # <<>> =>
      /\ IsRegisterWrite(txns[1], FCR, channel)
      /\ Bits(txns[1].out[2], 5, 3) = 7
      /\ \A i \in DOMAIN txns : ~IsLevelRead(txns[i])
      /\ txns[1].ok => fifo_enabled
      /\ Len(txns) > 1 => txns[1].ok

C9_Witness ==
    /\ call.op = "init"
    /\ Len(txns) = 2
    /\ txns[1].out = <<RabBytes("Write", FCR, channel), 224>>
    /\ fifo_enabled

FaultFree == \A i \in DOMAIN txns : txns[i].ok

\* the i-th transaction of a fault-free init
InitStep(i, txn) ==
    CASE i = 1 -> IsRegisterWrite(txn, FCR, channel) /\ txn.out[2] = 224
      [] i = 2 -> IsRegisterRead(txn, LCR, channel)
      [] i = 3 -> /\ IsRegisterWrite(txn, LCR, channel)
                  /\ Bits(txn.out[2], 7, 1) = 1
                  /\ txn.out[2] % 128 = txns[2].in[2] % 128
      [] i = 4 -> IsRegisterRead(txn, MCR, channel)
      [] i = 5 -> IsRegisterWrite(txn, DLL, channel) /\ txn.out[2] = loc.divisor % 256
      [] i = 6 -> IsRegisterWrite(txn, DLH, channel) /\ txn.out[2] = loc.divisor \div 256
      [] i = 7 -> IsRegisterWrite(txn, LCR, channel) /\ txn.out[2] = 3
      [] OTHER -> FALSE

Quotient(crystal_freq, prescaler, baud_rate) ==
    (crystal_freq \div (16 * prescaler)) \div baud_rate

\* the prescaler that goes with the Modem Control byte init read
PrescalerRead == IF txns[4].in[2] = 0 THEN 1 ELSE 4

\* the 16-bit value init sent to DLL (low byte) and DLH (high byte)
DivisorProgrammed == txns[5].out[2] + 256 * txns[6].out[2]

DivisorWritten == call.op = "init" /\ Len(txns) >= 6 /\ FaultFree

\* C11 as stated: the divisor init programs is
\* floor(crystal_freq / (prescaler * 16 * baud_rate)), prescaler 1 when the
\* Modem Control byte read is 0 and 4 otherwise.
C11_DivisorIsQuotient ==
    DivisorWritten =>
      DivisorProgrammed =
        Quotient(call.crystal_freq, PrescalerRead, call.baud_rate)

\* C11 amended: that holds when 16 * baud_rate fits 32 bits and the
\* quotient is below 65536; the low byte goes to DLL and the high byte to
\* DLH; 1843200 Hz at 9600 baud gives 12 with prescaler 1 and 3 with 4.
C11_DivisorWhenItFits ==
    DivisorWritten =>
      LET q == Quotient(call.crystal_freq, PrescalerRead, call.baud_rate) IN
      /\ IsRegisterWrite(txns[5], DLL, channel)
      /\ IsRegisterWrite(txns[6], DLH, channel)
      /\ txns[5].out[2] \in 0..255 /\ txns[6].out[2] \in 0..255
      /\ call.baud_rate < OverflowBaud /\ q < 65536 => DivisorProgrammed = q
      /\ call.crystal_freq = 1843200 /\ call.baud_rate = 9600 =>
           DivisorProgrammed = (IF txns[4].in[2] = 0 THEN 12 ELSE 3)

C11_Witness ==
    /\ DivisorWritten
    /\ call.crystal_freq = 1843200 /\ call.baud_rate = 9600
    /\ txns[4].in[2] = 128
    /\ txns[5].out[2] = 3 /\ txns[6].out[2] = 0
    /\ result.kind = "ok"


\* C12: a failed bus transaction of init is its last one; init then returns
\* the wrapped transport error, and it returns Ok only when all seven of its
\* transactions succeeded.
C12_InitAbortsOnFailure ==
    call.op = "init" =>
      /\ \A i \in DOMAIN txns :
           ~txns[i].ok =>
             /\ i = Len(txns)
             /\ result = [kind |-> "err", val |-> 0]
             /\ pc = "idle"
      /\ result.kind = "err" => txns # <<>> /\ ~txns[Len(txns)].ok
      /\ result.kind = "ok" => Len(txns) = 7 /\ FaultFree

C12_Witness ==
    /\ call.op = "init"
    /\ Len(txns) = 4
    /\ ~txns[4].ok
    /\ result.kind = "err"
    /\ pc = "idle"
    /\ LatchEnabled(chip)


\* C13: flush returns success without any bus transaction or wait, and the
\* step that performs it leaves the driver and the chip as they were, also
\* with bytes still in the TX FIFO.
C13_FlushNoOp ==
    /\ [](call.op = "flush" =>
            /\ result = [kind |-> "ok", val |-> 0]
            /\ txns = <<>>
            /\ pc = "idle")
    /\ [][call'.op = "flush" /\ call.op # "flush" =>
            /\ chip' = chip
            /\ channel' = channel
            /\ fifo_enabled' = fifo_enabled
            /\ accepted' = accepted
            /\ pc' = pc]_vars

C13_Witness ==
    /\ call.op = "flush"
    /\ result.kind = "ok"
    /\ txns = <<>>
    /\ chip.txfree = 0
    /\ accepted # <<>>


\* C14: for each typed register view and every combination of its fields,
\* reading the fields back from the byte gives the same fields, and the
\* skipped bits of the byte are zero.
C14_ViewRoundTrip ==
    /\ view.stage = "decoded" => view.out = view.in
    /\ view.stage \in {"encoded", "decoded"} =>
         /\ view.byte \in 0..255
         /\ view.kind = "LineControl" => Bits(view.byte, 2, 6) = 0
         /\ view.kind = "FifoControl" => Bits(view.byte, 4, 1) = 0

C14_Witness ==
    /\ view.stage = "decoded"
    /\ view.kind = "FifoControl"
    /\ view.in = [rx_trigger |-> "_60", tx_trigger |-> "_32", reset_tx |-> TRUE,
                  reset_rx |-> FALSE, enable |-> TRUE]
    /\ view.byte = 171
    /\ view.out = view.in


\* C15: a read with a non-empty buffer does not return 0: it ends with the
\* count of bytes transferred, between 1 and the buffer length.
C15_ReadReturnsData ==
    call.op = "read" /\ call.buf # <<>> /\ pc \in {"idle", "panicked"} =>
      /\ result.kind = "ok"
      /\ result.val \in 1..Len(call.buf)


\* C16: read through the LineControl view, the byte init writes to enter
\* divisor-latch mode has divisor_latch_enable set, and its final byte 0x03
\* has divisor_latch_enable clear and no other flag of the view set.
C16_LatchBitIsViewBit ==
    call.op = "init" =>
      /\ Len(txns) >= 3 => LineControlOf(txns[3].out[2]).dle
      /\ Len(txns) >= 7 =>
           LineControlOf(txns[7].out[2]) = [dle |-> FALSE, brk |-> FALSE]


\* C17: when the TXLVL read of a write fails, write returns the wrapped
\* error and transfers no payload; when the payload transfer fails, write
\* returns the wrapped error and no count.  The failed transaction is tried
\* once and is the last one of the call.
C17_WriteAbortsOnFailure ==
    call.op = "write" =>
      /\ Len(txns) <= 2
      /\ \A i \in DOMAIN txns :
           ~txns[i].ok =>
             /\ i = Len(txns)
             /\ result = [kind |-> "err", val |-> 0]
             /\ pc = "idle"
      /\ txns # <<>> /\ ~txns[1].ok => ThrTransfers = {} /\ accepted = <<>>
      /\ result.kind = "err" => txns # <<>> /\ ~txns[Len(txns)].ok

C17_Witness ==
    /\ call.op = "write"
    /\ Len(txns) = 2
    /\ txns[1].ok
    /\ ~txns[2].ok
    /\ result.kind = "err"
    /\ accepted = <<>>


\* the transactions of the call made by RegisterWrapper::write and ::read
\* (all but the payload burst of write)
SingleAccesses ==
    {i \in DOMAIN txns : ~(call.op = "write" /\ i = 2)}

\* how many transactions a call has issued when it stands at a position
IssuedAt(p) ==
    CASE p = "init_write_fcr" -> 0
      [] p = "init_read_lcr" -> 1
      [] p = "init_write_latch" -> 2
      [] p = "init_read_mcr" -> 3
      [] p = "init_write_dll" -> 4
      [] p = "init_write_dlh" -> 5
      [] p = "init_write_lcr" -> 6
      [] p = "write_read_txlvl" -> 0
      [] p = "write_many_thr" -> 1
      [] OTHER -> Len(txns)

\* C18: each single-register access is one two-byte transaction: a bus
\* write of [control byte (write), data] or an in-place exchange of
\* [control byte (read), 0x00] whose second response byte is the value
\* returned; the control byte carries the channel chosen at construction.
C18_SingleRegisterAccess ==
    /\ Len(txns) = IssuedAt(pc)
    /\ \A i \in SingleAccesses :
         /\ Len(txns[i].out) = 2
         /\ RabChannel(txns[i].out[1]) = channel
         /\ txns[i].op = "write" =>
              RabRw(txns[i].out[1]) = "Write" /\ txns[i].in = <<>>
         /\ txns[i].op = "transfer" =>
              /\ RabRw(txns[i].out[1]) = "Read"
              /\ txns[i].out[2] = 0
              /\ Len(txns[i].in) = 2
    /\ pc = "init_write_latch" => loc.lcr_val = txns[2].in[2]
    /\ call.op = "init" /\ Len(txns) >= 4 /\ txns[4].ok =>
         loc.mcr = txns[4].in[2]
    /\ call.op = "write" /\ Len(txns) >= 1 /\ txns[1].ok =>
         loc.space_left = txns[1].in[2]

C18_Witness ==
    /\ channel = "B"
    /\ pc = "init_write_latch"
    /\ txns[2].out = <<154, 0>>
    /\ txns[2].in = <<255, 29>>
    /\ loc.lcr_val = 29


\* C19: whatever init and write calls came before, aborted ones included,
\* write transfers its payload to address 0x00 only while the Line Control
\* value last written has the divisor-latch bit (0x80) clear.
C19_PayloadNeverToLatch ==
    call.op = "write" =>
      \A i \in ThrTransfers :
        txns[i].ok /\ Payload(txns[i]) # <<>> => Bits(chip.lcr, 7, 1) = 0


\* C20: for baud_rate >= 1 with 16 * baud_rate within 32 bits and prescaler
\* 1 or 4, the nested division of init equals
\* floor(crystal_freq / (prescaler * 16 * baud_rate)); the value programmed
\* is that quotient modulo 2^16, the quotient itself exactly when it is
\* below 65536.
C20_NestedDivision ==
    calc.stage = "done" /\ calc.baud_rate >= 1 /\ calc.baud_rate <= 33554431 =>
      LET q == calc.crystal_freq \div (calc.prescaler * 16 * calc.baud_rate) IN
      /\ ~calc.panic
      /\ calc.quotient = q
      /\ calc.divisor = q % 65536
      /\ calc.divisor = q <=> q < 65536

C20_Witness ==
    /\ calc.stage = "done"
    /\ calc.crystal_freq = 14745600
    /\ calc.baud_rate = 3
    /\ calc.prescaler = 4
    /\ calc.quotient = 76800
    /\ calc.divisor = 11264

====
